---- MODULE Spec2Model ----
(***************************************************************************)
(* Model of create_pax.py: the breadth-first walk of a directory tree that *)
(* writes one archive member and one catalog line per entry, and the       *)
(* pipe-and-thread relay that hashes and archives a regular file in one    *)
(* pass.                                                                   *)
(*                                                                         *)
(* The main path is one process (pc); the tar thread of the current file   *)
(* is a second process (cpc).  The file system is the environment: the     *)
(* file being relayed may grow or shrink while it is read, and the tar     *)
(* thread may raise at any of its steps.                                   *)
(*                                                                         *)
(* Sizes are counted in bytes.  A block is BlockSize bytes (4096 in the    *)
(* program) and the pipe holds PipeBlocks blocks (16 on Linux); both are   *)
(* scaled down here.                                                       *)
(***************************************************************************)
EXTENDS Integers, Sequences, FiniteSets, TLC

\* ------------------------------------------------------------------ bounds
MaxNodes   == 3      \* entries below the source directory
MaxFileLen == 2      \* initial length of a regular file, in bytes
MaxEdits   == 1      \* changes made to files by other programs during the run
MaxFails   == 1      \* tar threads that raise during the run
BlockSize  == 1      \* bytes per read of the source file
PipeBlocks == 1      \* blocks the pipe holds before a write blocks

PipeCap == BlockSize * PipeBlocks

Root  == 0
Nodes == 1..MaxNodes
Kinds == {"dir", "file", "other", "linkdir", "linkfile"}

\* A node of the model that is no entry of the tree: trees have up to MaxNodes
\* entries, and the source directory may be empty.
Absent == "absent"

None == "None"

VARIABLES
    kind,        \* kind[n]: what entry n is on disk
    parent,      \* parent[n]: the directory (or link to one) that lists n
    content,     \* content[n]: bytes of the regular file n (or of its target)
    dirs_to_examine,  \* the work queue
    target_dir,  \* directory being listed
    iter,        \* entries of target_dir not yet processed
    pc,          \* position of the main path
    archive,     \* members written to tar_obj, in order
    catalog,     \* lines written to catalog_obj, in order
    notices,     \* "Skipping non-file" lines printed
    hash_obj,    \* bytes fed to the hash so far (of the current file)
    offset,      \* read position of entry_obj
    block,       \* the block last read
    pipe,        \* bytes written to the pipe and not yet read
    outOpen,     \* buffer_out_obj (read end) is open
    inOpen,      \* buffer_in_obj (write end) is open
    cpc,         \* position of the tar thread
    tarsize,     \* tar_info.size
    failed,      \* entries whose tar thread raised
    edits,       \* changes made to files so far
    visited,     \* directories dequeued so far, in order
    started      \* entries a tar thread was started for, in order

vars == <<kind, parent, content, dirs_to_examine, target_dir, iter, pc,
          archive, catalog, notices, hash_obj, offset, block, pipe, outOpen,
          inOpen, cpc, tarsize, failed, edits, visited, started>>

fsvars   == <<kind, parent>>
walkvars == <<dirs_to_examine, target_dir, iter, visited>>
relayvars == <<hash_obj, offset, block, pipe, outOpen, inOpen>>
thrvars  == <<cpc, tarsize, failed, started>>

\* ------------------------------------------------------------- file system
Min(a, b) == IF a < b THEN a ELSE b

\* pathlib: is_symlink() looks at the entry itself, is_dir() and is_file()
\* follow a link to its target.
IsSymlink(n) == n # Root /\ kind[n] \in {"linkdir", "linkfile"}
IsDir(n)     == n = Root \/ kind[n] \in {"dir", "linkdir"}
IsFile(n)    == n # Root /\ kind[n] \in {"file", "linkfile"}

RECURSIVE RelPath(_)
RelPath(n) == IF n = Root THEN <<>> ELSE Append(RelPath(parent[n]), n)

RECURSIVE ListFrom(_, _)
ListFrom(d, n) ==
    IF n > MaxNodes THEN <<>>
    ELSE IF parent[n] = d /\ kind[n] # Absent THEN <<n>> \o ListFrom(d, n + 1)
    ELSE ListFrom(d, n + 1)

\* target_dir.iterdir(): the entries of d, in listing order.
IterDir(d) == ListFrom(d, 1)

\* The target a link points at, as path components; lstat reports the length
\* of this path as the size of the link.
LinkTarget(n) == IF kind[n] = "linkdir" THEN <<"..", "elsewhere">>
                 ELSE <<"..", "elsewhere", "file">>

\* os.stat(item, follow_symlinks=False)
LstatType(n) == IF IsSymlink(n) THEN "l"
                ELSE IF kind[n] = "dir" THEN "d"
                ELSE IF kind[n] = "file" THEN "-"
                ELSE "p"
LstatSize(n) == IF IsSymlink(n) THEN Len(LinkTarget(n))
                ELSE IF kind[n] = "file" THEN Len(content[n])
                ELSE 0

\* --------------------------------------------------------------- hashing
Placeholder == "0000000000000000000000000000000000000000"

\* hash_obj.hexdigest(): SHA-1 is modelled as a collision-free function of
\* the bytes fed to it, into values other than the placeholder.
HexDigest(bytes) == <<"sha1", bytes>>


\* ------------------------------------------------------------ classification
IsDirFirst(n) ==
    IF IsDir(n) THEN "dir"
    ELSE IF IsSymlink(n) THEN "symlink"
    ELSE IF IsFile(n) THEN "file"
    ELSE "other"

\* The if / elif chain of the main loop: symlink first, then directory, then
\* regular file, else other.
Classify(n) ==
    IF IsSymlink(n) THEN "symlink"
    ELSE IF IsDir(n) THEN "dir"
    ELSE IF IsFile(n) THEN "file"
    ELSE "other"

\* ------------------------------------------------------------------ catalog
ChecksumAsGiven(checksum) == checksum

\* write_catalog: no checksum means the all-zero placeholder.
CatalogChecksum(checksum) ==
    IF checksum = None THEN Placeholder ELSE checksum

\* The size column as printed: the text N/A or a number of bytes.
NA       == [text |-> "N/A"]
Bytes(k) == [bytes |-> k]

SizeFollowingLinks(n) ==
    IF IsDir(n) THEN NA ELSE Bytes(LstatSize(n))

\* write_catalog: N/A for a directory (by lstat), else st_size.
CatalogSize(n) ==
    IF LstatType(n) = "d" THEN NA ELSE Bytes(LstatSize(n))

\* The line write_catalog prints for item n.
CatalogLine(n, checksum) ==
    [header   |-> FALSE,
     perm     |-> LstatType(n),
     checksum |-> CatalogChecksum(checksum),
     size     |-> CatalogSize(n),
     name     |-> n]

\* The header line printed when a directory is dequeued.
HeaderLine(d) == [header |-> TRUE, dir |-> RelPath(d)]

\* tar_obj.add(str(entry), arcname=..., recursive=False): one member, typed by
\* lstat, without content.
AddMember(n) ==
    [name |-> RelPath(n),
     type |-> IF IsSymlink(n) THEN "SYMTYPE" ELSE "DIRTYPE",
     size |-> 0,
     data |-> <<>>]

\* --------------------------------------------------------------------- Init
Init ==
    /\ parent \in {f \in [Nodes -> 0..(MaxNodes - 1)] : \A n \in Nodes : f[n] < n}
    /\ kind \in {k \in [Nodes -> Kinds \cup {Absent}] :
                    \A n \in Nodes :
                        /\ parent[n] = Root \/ k[parent[n]] \in {"dir", "linkdir"}
                        /\ k[n] = Absent =>
                               /\ parent[n] = Root
                               /\ n < MaxNodes => k[n + 1] = Absent}
    /\ content \in {c \in [Nodes -> {[i \in 1..l |-> i] : l \in 0..MaxFileLen}] :
                    \A n \in Nodes : kind[n] \notin {"file", "linkfile"} => c[n] = <<>>}
    /\ dirs_to_examine = <<Root>>
    /\ target_dir = Root
    /\ iter = <<>>
    /\ pc = "while"
    /\ archive = <<>>
    /\ catalog = <<>>
    /\ notices = <<>>
    /\ hash_obj = <<>>
    /\ offset = 0
    /\ block = <<>>
    /\ pipe = <<>>
    /\ outOpen = FALSE
    /\ inOpen = FALSE
    /\ cpc = "idle"
    /\ tarsize = 0
    /\ failed = {}
    /\ edits = 0
    /\ visited = <<>>
    /\ started = <<>>

\* ---------------------------------------------------------------- main path
DequeueNoHeader ==
    /\ pc = "while"
    /\ Len(dirs_to_examine) > 0
    /\ target_dir' = Head(dirs_to_examine)
    /\ dirs_to_examine' = Tail(dirs_to_examine)
    /\ visited' = Append(visited, Head(dirs_to_examine))
    /\ iter' = IterDir(Head(dirs_to_examine))
    /\ pc' = "for"
    /\ UNCHANGED <<fsvars, content, archive, catalog, notices, relayvars,
                   thrvars, edits>>

\* while len(dirs_to_examine) > 0: pop(0), print the header, list the directory.
Dequeue ==
    /\ pc = "while"
    /\ Len(dirs_to_examine) > 0
    /\ target_dir' = Head(dirs_to_examine)
    /\ dirs_to_examine' = Tail(dirs_to_examine)
    /\ visited' = Append(visited, Head(dirs_to_examine))
    /\ catalog' = Append(catalog, HeaderLine(Head(dirs_to_examine)))
    /\ iter' = IterDir(Head(dirs_to_examine))
    /\ pc' = "for"
    /\ UNCHANGED <<fsvars, content, archive, notices, relayvars, thrvars, edits>>

\* The for loop is exhausted: back to the while test.
EndDirectory ==
    /\ pc = "for"
    /\ iter = <<>>
    /\ pc' = "while"
    /\ UNCHANGED <<fsvars, content, walkvars, archive, catalog, notices,
                   relayvars, thrvars, edits>>

\* Symlink branch: catalog line and archive member, nothing queued.
Symlink ==
    /\ pc = "for"
    /\ iter # <<>>
    /\ Classify(Head(iter)) = "symlink"
    /\ catalog' = Append(catalog, CatalogLine(Head(iter), None))
    /\ archive' = Append(archive, AddMember(Head(iter)))
    /\ iter' = Tail(iter)
    /\ UNCHANGED <<fsvars, content, dirs_to_examine, target_dir, visited, pc,
                   notices, relayvars, thrvars, edits>>

DirectoryNotArchived ==
    /\ pc = "for"
    /\ iter # <<>>
    /\ Classify(Head(iter)) = "dir"
    /\ catalog' = Append(catalog, CatalogLine(Head(iter), None))
    /\ dirs_to_examine' = Append(dirs_to_examine, Head(iter))
    /\ iter' = Tail(iter)
    /\ UNCHANGED <<fsvars, content, target_dir, visited, pc, archive, notices,
                   relayvars, thrvars, edits>>

DirectoryWithHeader ==
    /\ pc = "for"
    /\ iter # <<>>
    /\ Classify(Head(iter)) = "dir"
    /\ catalog' = catalog \o <<CatalogLine(Head(iter), None), HeaderLine(Head(iter))>>
    /\ archive' = Append(archive, AddMember(Head(iter)))
    /\ dirs_to_examine' = Append(dirs_to_examine, Head(iter))
    /\ iter' = Tail(iter)
    /\ UNCHANGED <<fsvars, content, target_dir, visited, pc, notices,
                   relayvars, thrvars, edits>>

\* Directory branch: catalog line, archive member, and the directory is queued.
Directory ==
    /\ pc = "for"
    /\ iter # <<>>
    /\ Classify(Head(iter)) = "dir"
    /\ catalog' = Append(catalog, CatalogLine(Head(iter), None))
    /\ archive' = Append(archive, AddMember(Head(iter)))
    /\ dirs_to_examine' = Append(dirs_to_examine, Head(iter))
    /\ iter' = Tail(iter)
    /\ UNCHANGED <<fsvars, content, target_dir, visited, pc, notices,
                   relayvars, thrvars, edits>>

SkipOtherCataloged ==
    /\ pc = "for"
    /\ iter # <<>>
    /\ Classify(Head(iter)) = "other"
    /\ notices' = Append(notices, Head(iter))
    /\ catalog' = Append(catalog, CatalogLine(Head(iter), None))
    /\ iter' = Tail(iter)
    /\ UNCHANGED <<fsvars, content, dirs_to_examine, target_dir, visited, pc,
                   archive, relayvars, thrvars, edits>>

\* Other branch: one notice, nothing else.
SkipOther ==
    /\ pc = "for"
    /\ iter # <<>>
    /\ Classify(Head(iter)) = "other"
    /\ notices' = Append(notices, Head(iter))
    /\ iter' = Tail(iter)
    /\ UNCHANGED <<fsvars, content, dirs_to_examine, target_dir, visited, pc,
                   archive, catalog, relayvars, thrvars, edits>>

\* File branch, up to tar_thread.start(): open the file, make the pipe and the
\* hash, start the thread.
StartRelay ==
    /\ pc = "for"
    /\ iter # <<>>
    /\ Classify(Head(iter)) = "file"
    /\ offset' = 0
    /\ block' = <<>>
    /\ pipe' = <<>>
    /\ outOpen' = TRUE
    /\ inOpen' = TRUE
    /\ hash_obj' = <<>>
    /\ cpc' = "stat"
    /\ started' = Append(started, Head(iter))
    /\ tarsize' = 0
    /\ pc' = "read"
    /\ UNCHANGED <<fsvars, content, walkvars, archive, catalog, notices,
                   failed, edits>>

ReadBlockNoJoin ==
    /\ pc = "read"
    /\ LET n   == Head(iter)
           end == Min(Len(content[n]), offset + BlockSize)
           b   == IF offset >= Len(content[n]) THEN <<>>
                  ELSE SubSeq(content[n], offset + 1, end)
       IN /\ block' = b
          /\ offset' = offset + Len(b)
          /\ pc' = IF Len(b) > 0 THEN "update" ELSE "close_out"
    /\ UNCHANGED <<fsvars, content, walkvars, archive, catalog, notices,
                   hash_obj, pipe, outOpen, inOpen, thrvars, edits>>

\* block = entry_obj.read(4096), and the while test on its length.
ReadBlock ==
    /\ pc = "read"
    /\ LET n   == Head(iter)
           end == Min(Len(content[n]), offset + BlockSize)
           b   == IF offset >= Len(content[n]) THEN <<>>
                  ELSE SubSeq(content[n], offset + 1, end)
       IN /\ block' = b
          /\ offset' = offset + Len(b)
          /\ pc' = IF Len(b) > 0 THEN "update" ELSE "join"
    /\ UNCHANGED <<fsvars, content, walkvars, archive, catalog, notices,
                   hash_obj, pipe, outOpen, inOpen, thrvars, edits>>

\* hash_obj.update(block)
HashUpdate ==
    /\ pc = "update"
    /\ hash_obj' = hash_obj \o block
    /\ pc' = "write"
    /\ UNCHANGED <<fsvars, content, walkvars, archive, catalog, notices,
                   offset, block, pipe, outOpen, inOpen, thrvars, edits>>

WriteNoFlush ==
    /\ pc = "write"
    /\ pc' = "read"
    /\ UNCHANGED <<fsvars, content, walkvars, archive, catalog, notices,
                   hash_obj, offset, block, pipe, outOpen, inOpen, thrvars, edits>>

\* buffer_in_obj.write(block); flush(): blocks while the pipe has no room.
WriteBlock ==
    /\ pc = "write"
    /\ Len(pipe) + Len(block) <= PipeCap
    /\ pipe' = pipe \o block
    /\ pc' = "read"
    /\ UNCHANGED <<fsvars, content, walkvars, archive, catalog, notices,
                   hash_obj, offset, block, outOpen, inOpen, thrvars, edits>>

JoinNoWait ==
    /\ pc = "join"
    /\ pc' = "close_out"
    /\ UNCHANGED <<fsvars, content, walkvars, archive, catalog, notices,
                   relayvars, thrvars, edits>>

\* tar_thread.join(): returns once the thread has ended, whether it returned
\* or raised.
Join ==
    /\ pc = "join"
    /\ cpc \in {"done", "failed"}
    /\ pc' = "close_out"
    /\ UNCHANGED <<fsvars, content, walkvars, archive, catalog, notices,
                   relayvars, thrvars, edits>>

CloseInFirst ==
    /\ pc = "close_out"
    /\ inOpen' = FALSE
    /\ pc' = "close_in"
    /\ UNCHANGED <<fsvars, content, walkvars, archive, catalog, notices,
                   hash_obj, offset, block, pipe, outOpen, thrvars, edits>>

\* buffer_out_obj.close(): the read end.
CloseOut ==
    /\ pc = "close_out"
    /\ outOpen' = FALSE
    /\ pc' = "close_in"
    /\ UNCHANGED <<fsvars, content, walkvars, archive, catalog, notices,
                   hash_obj, offset, block, pipe, inOpen, thrvars, edits>>

\* buffer_in_obj.close(): the write end.
CloseIn ==
    /\ pc = "close_in"
    /\ inOpen' = FALSE
    /\ pc' = "catalog"
    /\ UNCHANGED <<fsvars, content, walkvars, archive, catalog, notices,
                   hash_obj, offset, block, pipe, outOpen, thrvars, edits>>

\* write_catalog(catalog_obj, entry, hash_obj.hexdigest()), end of the branch.
FileCatalog ==
    /\ pc = "catalog"
    /\ catalog' = Append(catalog, CatalogLine(Head(iter), HexDigest(hash_obj)))
    /\ iter' = Tail(iter)
    /\ cpc' = "idle"
    /\ pc' = "for"
    /\ UNCHANGED <<fsvars, content, dirs_to_examine, target_dir, visited,
                   archive, notices, relayvars, tarsize, failed, started, edits>>

DoneEarly ==
    /\ pc = "while"
    /\ pc' = "done"
    /\ UNCHANGED <<fsvars, content, walkvars, archive, catalog, notices,
                   relayvars, thrvars, edits>>

\* The while test fails: print Done!
Done ==
    /\ pc = "while"
    /\ Len(dirs_to_examine) = 0
    /\ pc' = "done"
    /\ UNCHANGED <<fsvars, content, walkvars, archive, catalog, notices,
                   relayvars, thrvars, edits>>

\* tar_obj.close(); gzip_obj.close(); catalog_obj.close(); sys.exit(0)
CloseFiles ==
    /\ pc = "done"
    /\ pc' = "exit"
    /\ UNCHANGED <<fsvars, content, walkvars, archive, catalog, notices,
                   relayvars, thrvars, edits>>

\* --------------------------------------------------------------- tar thread
\* item_stat = item_path.stat(); tar_info.size = item_stat.st_size
TarStat ==
    /\ cpc = "stat"
    /\ tarsize' = Len(content[Head(iter)])
    /\ cpc' = "addfile"
    /\ UNCHANGED <<fsvars, content, walkvars, pc, archive, catalog, notices,
                   relayvars, failed, started, edits>>

\* tar_obj.addfile(tar_info, stream): the member's header goes out first.
TarHeader ==
    /\ cpc = "addfile"
    /\ archive' = Append(archive, [name |-> RelPath(Head(iter)),
                                   type |-> "REGTYPE",
                                   size |-> tarsize,
                                   data |-> <<>>])
    /\ cpc' = "copy"
    /\ UNCHANGED <<fsvars, content, walkvars, pc, catalog, notices,
                   relayvars, tarsize, failed, started, edits>>

\* addfile copies tar_info.size bytes from the stream: a read of the pipe
\* returns what is there, up to what is still wanted, and blocks on an empty
\* pipe whose write end is open.
TarCopy ==
    /\ cpc = "copy"
    /\ LET m    == archive[Len(archive)]
           want == tarsize - Len(m.data)
           k    == Min(want, Len(pipe))
       IN /\ want > 0
          /\ k > 0
          /\ archive' = [archive EXCEPT ![Len(archive)].data = m.data \o SubSeq(pipe, 1, k)]
          /\ pipe' = SubSeq(pipe, k + 1, Len(pipe))
    /\ UNCHANGED <<fsvars, content, walkvars, pc, catalog, notices, hash_obj,
                   offset, block, outOpen, inOpen, thrvars, edits>>

\* All of tar_info.size bytes are copied: addfile and the thread return.
TarReturn ==
    /\ cpc = "copy"
    /\ Len(archive[Len(archive)].data) = tarsize
    /\ cpc' = "done"
    /\ UNCHANGED <<fsvars, content, walkvars, pc, archive, catalog, notices,
                   relayvars, tarsize, failed, started, edits>>

\* The thread raises (stat fails, the archive cannot be written, the header
\* cannot be built): threading prints the traceback and the thread ends.
TarRaise ==
    /\ cpc \in {"stat", "addfile", "copy"}
    /\ Cardinality(failed) < MaxFails
    /\ cpc' = "failed"
    /\ failed' = failed \cup {Head(iter)}
    /\ UNCHANGED <<fsvars, content, walkvars, pc, archive, catalog, notices,
                   relayvars, tarsize, started, edits>>

\* -------------------------------------------------------------- environment
InRelay == pc \in {"read", "update", "write", "join", "close_out", "close_in", "catalog"}

\* Another program appends a byte to the file being archived.
FileGrows ==
    /\ InRelay
    /\ edits < MaxEdits
    /\ content' = [content EXCEPT ![Head(iter)] = Append(@, 0)]
    /\ edits' = edits + 1
    /\ UNCHANGED <<fsvars, walkvars, pc, archive, catalog, notices, relayvars, thrvars>>

\* Another program truncates the file being archived by one byte.
FileShrinks ==
    /\ InRelay
    /\ edits < MaxEdits
    /\ Len(content[Head(iter)]) > 0
    /\ content' = [content EXCEPT ![Head(iter)] = SubSeq(@, 1, Len(@) - 1)]
    /\ edits' = edits + 1
    /\ UNCHANGED <<fsvars, walkvars, pc, archive, catalog, notices, relayvars, thrvars>>

Next ==
    \/ Dequeue \/ EndDirectory \/ Symlink \/ Directory \/ SkipOther
    \/ StartRelay \/ ReadBlock \/ HashUpdate \/ WriteBlock \/ Join
    \/ CloseOut \/ CloseIn \/ FileCatalog \/ Done \/ CloseFiles
    \/ TarStat \/ TarHeader \/ TarCopy \/ TarReturn \/ TarRaise
    \/ FileGrows \/ FileShrinks

Spec == Init /\ [][Next]_vars

\* The steps of the main path and those of the tar thread.  A thread that can
\* run is run in the end (the interpreter switches threads every few
\* milliseconds), so each side is weakly fair; nothing makes another program
\* change a file or the thread raise.
MainStep ==
    \/ Dequeue \/ EndDirectory \/ Symlink \/ Directory \/ SkipOther
    \/ StartRelay \/ ReadBlock \/ HashUpdate \/ WriteBlock \/ Join
    \/ CloseOut \/ CloseIn \/ FileCatalog \/ Done \/ CloseFiles
ThreadStep == TarStat \/ TarHeader \/ TarCopy \/ TarReturn

FairSpec == Spec /\ WF_vars(MainStep) /\ WF_vars(ThreadStep)

\* ------------------------------------------------------------------ helpers
Range(s) == {s[i] : i \in 1..Len(s)}

IsData(l) == ~l.header
DataLines == SelectSeq(catalog, IsData)

\* Entries of the tree: those reached from the source directory through real
\* directories only.
RECURSIVE InTree(_)
InTree(n) ==
    /\ kind[n] # Absent
    /\ parent[n] = Root \/ (kind[parent[n]] = "dir" /\ InTree(parent[n]))

RECURSIVE Depth(_)
Depth(n) == IF n = Root THEN 0 ELSE 1 + Depth(parent[n])

\* The main path is between two entries.
BetweenEntries == pc \in {"while", "for", "done", "exit"}
Finished       == pc \in {"done", "exit"}

\* The main path is done with entry n.
Processed(n) ==
    /\ kind[n] # Absent
    /\ parent[n] \in Range(visited)
    /\ parent[n] = target_dir => n \notin Range(iter)

HasLine(n)   == \E i \in 1..Len(catalog) : IsData(catalog[i]) /\ catalog[i].name = n
HasMember(n) == \E i \in 1..Len(archive) : archive[i].name = RelPath(n)

\* =================================================================== claims

\* C1: once the tar thread of a file has raised, the main path does not get
\* past the join of that file: it writes no catalog line for the file, starts
\* no later entry and does not reach Done.
C1_ConsumerFailureAborts ==
    \A n \in failed :
        /\ iter # <<>> /\ Head(iter) = n
        /\ pc \in {"read", "update", "write", "join"}
        /\ ~HasLine(n)

\* C2: in a run that reached Done, every catalog line of a regular file
\* carries the digest of exactly the bytes stored in the file's archive
\* member.
C2_DigestIsHashOfMember ==
    Finished =>
        \A i \in 1..Len(DataLines) :
            Classify(DataLines[i].name) = "file" =>
                \E j \in 1..Len(archive) :
                    /\ archive[j].name = RelPath(DataLines[i].name)
                    /\ archive[j].type = "REGTYPE"
                    /\ DataLines[i].checksum = HexDigest(archive[j].data)

\* C3: in a run that reached Done, the archive's member paths are exactly the
\* paths of the tree's symlinks, directories and regular files, no Other
\* entry is archived or cataloged, and no path is recorded twice.
C3_ArchiveIsTheTree ==
    Finished =>
        /\ {archive[i].name : i \in 1..Len(archive)}
             = {RelPath(n) : n \in {m \in Nodes : InTree(m) /\ Classify(m) # "other"}}
        /\ \A i, j \in 1..Len(archive) : archive[i].name = archive[j].name => i = j
        /\ \A i, j \in 1..Len(DataLines) : DataLines[i].name = DataLines[j].name => i = j
        /\ \A i \in 1..Len(DataLines) : Classify(DataLines[i].name) # "other"

\* C4: whenever the main path is between two entries, and so at Done, the
\* catalog has as many data lines as the archive has members.
C4_LinesEqualMembers ==
    BetweenEntries => Len(DataLines) = Len(archive)

\* Entry a comes before entry b in breadth-first order: a shallower level
\* first, then the directory dequeued first, then listing order.
BfsBefore(a, b) ==
    \/ Depth(a) < Depth(b)
    \/ /\ Depth(a) = Depth(b)
       /\ parent[a] = parent[b]
       /\ a < b
    \/ /\ Depth(a) = Depth(b)
       /\ parent[a] # parent[b]
       /\ \E i, j \in 1..Len(visited) :
              i < j /\ visited[i] = parent[a] /\ visited[j] = parent[b]

\* C5: catalog data lines and archive members come out in breadth-first
\* order, and between two entries the k-th data line and the k-th member name
\* the same entry.
C5_BreadthFirstSameOrder ==
    /\ \A i, j \in 1..Len(DataLines) :
           i < j => BfsBefore(DataLines[i].name, DataLines[j].name)
    /\ \A i, j \in 1..Len(visited) :
           i < j => Depth(visited[i]) <= Depth(visited[j])
    /\ BetweenEntries =>
           /\ Len(DataLines) = Len(archive)
           /\ \A k \in 1..Len(DataLines) : archive[k].name = RelPath(DataLines[k].name)

\* C6: a symlink is never put on the work queue and never dequeued, nothing
\* that is reached only through a symlink is cataloged or archived, and every
\* symlink the main path is done with has its catalog line and its symlink
\* member, also when its target is a directory.
C6_SymlinkNeverQueued ==
    /\ \A i \in 1..Len(dirs_to_examine) : ~IsSymlink(dirs_to_examine[i])
    /\ \A i \in 1..Len(visited) : visited[i] = Root \/ ~IsSymlink(visited[i])
    /\ \A n \in Nodes : ~InTree(n) => ~HasLine(n) /\ ~HasMember(n)
    /\ \A n \in Nodes :
           IsSymlink(n) /\ Processed(n) =>
               /\ \E i \in 1..Len(catalog) :
                      IsData(catalog[i]) /\ catalog[i].name = n /\ catalog[i].perm = "l"
               /\ \E i \in 1..Len(archive) :
                      archive[i].name = RelPath(n) /\ archive[i].type = "SYMTYPE"

\* A finished run over a tree with a symlink to a directory that has an entry
\* behind it.
C6_Witness ==
    /\ pc = "exit"
    /\ \E n, m \in Nodes :
           /\ InTree(n) /\ kind[n] = "linkdir" /\ parent[m] = n
           /\ HasLine(n) /\ HasMember(n)

\* C7: every catalog line of a directory or symlink carries the placeholder
\* digest, no line of a regular file does, and the line written for a regular
\* file carries the digest of the bytes its relay fed to the hash.
C7_PlaceholderOnlyForNonFiles ==
    [][/\ \A i \in 1..Len(catalog') :
              IsData(catalog'[i]) =>
                  /\ Classify(catalog'[i].name) \in {"dir", "symlink"}
                         => catalog'[i].checksum = Placeholder
                  /\ Classify(catalog'[i].name) = "file"
                         => catalog'[i].checksum # Placeholder
       /\ (pc = "catalog" /\ pc' = "for") =>
              /\ Len(catalog') = Len(catalog) + 1
              /\ catalog'[Len(catalog')].name = Head(iter)
              /\ catalog'[Len(catalog')].checksum = HexDigest(hash_obj)
      ]_vars

\* A finished run whose catalog has a directory line, a symlink line and the
\* line of a non-empty regular file.
C7_Witness ==
    /\ pc = "exit"
    /\ \E i, j, k \in 1..Len(DataLines) :
           /\ Classify(DataLines[i].name) = "dir"
           /\ Classify(DataLines[j].name) = "symlink"
           /\ Classify(DataLines[k].name) = "file"
           /\ DataLines[k].checksum = HexDigest(<<1, 2>>)

\* C8 as stated: the catalog line of a symlink has the placeholder digest and
\* the size field N/A.
C8_SymlinkSizeNA ==
    \A i \in 1..Len(DataLines) :
        Classify(DataLines[i].name) = "symlink" =>
            /\ DataLines[i].checksum = Placeholder
            /\ DataLines[i].size = NA

\* C8 amended: the catalog line of a symlink has the placeholder digest and,
\* as its size, the number lstat reports for the link itself (the length of
\* its target path), never N/A, whatever the target is.
C8_SymlinkSizeIsLstatSize ==
    \A i \in 1..Len(DataLines) :
        Classify(DataLines[i].name) = "symlink" =>
            /\ DataLines[i].checksum = Placeholder
            /\ DataLines[i].size # NA
            /\ DataLines[i].size = Bytes(Len(LinkTarget(DataLines[i].name)))

\* The catalog has the line of a symlink to a directory and the line of a
\* symlink to a regular file.
C8_Witness ==
    \E i, j \in 1..Len(DataLines) :
        /\ kind[DataLines[i].name] = "linkdir"
        /\ kind[DataLines[j].name] = "linkfile"

\* C9: the step that processes an Other entry prints one notice, leaves the
\* archive, the catalog and the work queue as they are, and goes on to the
\* next entry of the directory.
C9_OtherIsSkipped ==
    [][(pc = "for" /\ iter # <<>> /\ Classify(Head(iter)) = "other") =>
           /\ notices' = Append(notices, Head(iter))
           /\ archive' = archive
           /\ catalog' = catalog
           /\ dirs_to_examine' = dirs_to_examine
           /\ pc' = "for"
           /\ iter' = Tail(iter)
      ]_vars

\* An Other entry was skipped and the entry listed after it was then cataloged
\* and archived.
C9_Witness ==
    \E n, m \in Nodes :
        /\ n < m /\ parent[n] = parent[m] /\ InTree(n)
        /\ Classify(n) = "other"
        /\ n \in Range(notices)
        /\ ~HasLine(n) /\ ~HasMember(n)
        /\ HasLine(m) /\ HasMember(m)

Alive == cpc \in {"stat", "addfile", "copy"}

\* C11: a tar thread is started only when none is alive, one is started for
\* every regular file the main path takes up and for nothing else, and it has
\* ended before the main path gets past the join, so that none is alive
\* between two entries, at a dequeue or at Done.
C11_OneThreadAtATime ==
    [][/\ started' # started => ~Alive /\ cpc' = "stat"
       /\ BetweenEntries' => cpc' = "idle"
       /\ pc' \in {"close_out", "close_in", "catalog"} => cpc' \in {"done", "failed"}
       /\ (cpc' \in {"stat", "addfile", "copy"}) =>
              /\ pc' \in {"read", "update", "write", "join"}
              /\ started'[Len(started')] = Head(iter')
       /\ \A i, j \in 1..Len(started') : started'[i] = started'[j] => i = j
       /\ Range(started') =
              {n \in Nodes : /\ InTree(n) /\ Classify(n) = "file"
                             /\ \/ Processed(n)'
                                \/ InRelay' /\ Head(iter') = n}
      ]_vars

\* A finished run that relayed two regular files, one after the other.
C11_Witness ==
    /\ pc = "exit"
    /\ Len(started) = 2
    /\ \A i \in 1..Len(started) : HasLine(started[i]) /\ HasMember(started[i])

\* C12: while a tar thread is alive nothing is written to the catalog and the
\* work queue is not touched, by either side, and what is written to the
\* archive is written by the thread, not by the main path; the main path
\* writes to the archive only between relays.
C12_SinksHaveOneUser ==
    [][/\ Alive =>
              /\ catalog' = catalog
              /\ dirs_to_examine' = dirs_to_examine
              /\ visited' = visited
              /\ iter' = iter
              /\ archive' # archive =>
                     /\ pc' = pc
                     /\ cpc \in {"addfile", "copy"}
       /\ (archive' # archive /\ ~Alive) => pc = "for" /\ cpc = "idle"
       /\ (cpc' # cpc /\ pc' = pc) =>
              /\ catalog' = catalog
              /\ dirs_to_examine' = dirs_to_examine
      ]_vars

\* The thread has written file bytes to the archive while the main path is
\* still in its read loop.
C12_Witness ==
    /\ cpc = "copy"
    /\ pc \in {"read", "update", "write"}
    /\ Len(archive) > 0
    /\ archive[Len(archive)].data # <<>>
    /\ offset < Len(content[Head(iter)])

\* Directory d has its own catalog line and its own archive member.
DirEmitted(d) ==
    /\ \E i \in 1..Len(catalog) :
           IsData(catalog[i]) /\ catalog[i].name = d /\ catalog[i].perm = "d"
    /\ \E i \in 1..Len(archive) :
           archive[i].name = RelPath(d) /\ archive[i].type = "DIRTYPE"

\* Every directory that was ever put on the work queue: those still on it and
\* those dequeued.
Enqueued == visited \o dirs_to_examine

\* C13 as stated: every directory put on the work queue, the source directory
\* included, has its own catalog line and archive member by then, and no
\* directory is dequeued twice.
C13_EveryQueuedDirEmitted ==
    /\ \A i \in 1..Len(Enqueued) :
           \/ /\ Enqueued[i] = Root
              /\ \E k \in 1..Len(catalog) : IsData(catalog[k]) /\ catalog[k].name = Root
              /\ \E k \in 1..Len(archive) : archive[k].name = RelPath(Root)
           \/ Enqueued[i] # Root /\ DirEmitted(Enqueued[i])
    /\ \A i, j \in 1..Len(visited) : visited[i] = visited[j] => i = j

\* C13 amended: every directory put on the work queue other than the source
\* directory has its own catalog line and archive member by then; the source
\* directory is queued first, with neither, and never gets them; no directory
\* is queued or dequeued twice.
C13_QueuedDirEmittedExceptRoot ==
    /\ \A i \in 1..Len(Enqueued) : Enqueued[i] # Root => DirEmitted(Enqueued[i])
    /\ Enqueued[1] = Root
    /\ \A k \in 1..Len(catalog) : IsData(catalog[k]) => catalog[k].name # Root
    /\ \A k \in 1..Len(archive) : archive[k].name # RelPath(Root)
    /\ \A i, j \in 1..Len(Enqueued) : Enqueued[i] = Enqueued[j] => i = j

\* A finished run that dequeued the source directory and two directories
\* below it.
C13_Witness ==
    /\ pc = "exit"
    /\ Len(visited) = 3
    /\ \A i \in 2..Len(visited) : DirEmitted(visited[i])

\* The source directory has no entry.
EmptySource == \A n \in Nodes : kind[n] = Absent

\* C14 as stated: for an empty source directory the finished run has an
\* archive of exactly one member, the directory member of the source directory
\* itself, and a catalog of one header line and no data line.
C14_EmptySourceOneMember ==
    (EmptySource /\ Finished) =>
        /\ Len(archive) = 1
        /\ archive[1].type = "DIRTYPE"
        /\ archive[1].name = RelPath(Root)
        /\ catalog = <<HeaderLine(Root)>>

\* C14 amended: for an empty source directory the archive stays without any
\* member, the source directory itself is not archived, and from the dequeue
\* of the source directory up to and past Done the catalog is its one header
\* line, without data lines.
C14_EmptySourceNoMember ==
    EmptySource =>
        /\ archive = <<>>
        /\ DataLines = <<>>
        /\ visited # <<>> => catalog = <<HeaderLine(Root)>> /\ visited = <<Root>>
        /\ Finished => visited # <<>> /\ dirs_to_examine = <<>>

\* The run over an empty source directory has closed its files.
C14_Witness ==
    /\ EmptySource
    /\ pc = "exit"
    /\ catalog = <<HeaderLine(Root)>>

\* C15: a run in which no tar thread raises and no file is changed reaches
\* the end, with the files closed; Done is always followed by the close of
\* the files; and at Done and at the close the work queue is empty and no
\* entry is left over.
C15_QuietRunTerminates ==
    /\ <>(failed # {} \/ edits > 0 \/ pc = "exit")
    /\ (pc = "done") ~> (pc = "exit")
    /\ [](Finished => dirs_to_examine = <<>> /\ iter = <<>> /\ cpc = "idle")

\* A run without a failure or a change has closed its files after it relayed
\* a regular file of more bytes than the pipe holds and walked a directory
\* below the source directory.
C15_Witness ==
    /\ pc = "exit"
    /\ failed = {} /\ edits = 0
    /\ Len(visited) > 1
    /\ \E i \in 1..Len(archive) :
           archive[i].type = "REGTYPE" /\ Len(archive[i].data) > PipeCap

\* The member the tar thread of the current file has written so far, if it got
\* as far as the header.
HasCurMember ==
    /\ cpc \in {"copy", "done", "failed"}
    /\ Len(archive) > 0
    /\ archive[Len(archive)].type = "REGTYPE"
    /\ archive[Len(archive)].name = RelPath(Head(iter))
CurMember == archive[Len(archive)]

\* The join of the current file has returned and its catalog line is not yet
\* written.
Joined == pc \in {"close_out", "close_in", "catalog"}

\* C16: once the join has returned, the thread's addfile call has returned,
\* the pipe is empty, and the member holds as many bytes as its header says,
\* which are all the bytes the main path wrote to the pipe.
C16_JoinedMeansDrained ==
    Joined =>
        /\ cpc = "done"
        /\ pipe = <<>>
        /\ HasCurMember
        /\ Len(CurMember.data) = CurMember.size
        /\ CurMember.data = hash_obj

\* The bytes the main path has written to the pipe so far: those the thread
\* took and those still in the pipe.
Sent == IF HasCurMember THEN CurMember.data \o pipe ELSE pipe

\* C17: the main path reads the file front to back, each byte once; a block
\* read is added to the hash, then written to the pipe, and only then is the
\* next block read; the bytes hashed are the bytes written to the pipe, in
\* order; no step of the thread moves the read position or reads the file.
C17_ReadOnceHashThenPipe ==
    [][/\ pc' = "read" => hash_obj' = Sent' /\ offset' = Len(hash_obj')
       /\ pc' = "update" =>
              /\ hash_obj' = Sent'
              /\ block' # <<>>
              /\ offset' = Len(hash_obj') + Len(block')
       /\ pc' = "write" =>
              /\ hash_obj' = Sent' \o block'
              /\ offset' = Len(hash_obj')
       /\ (pc = "read" /\ pc' # pc) =>
              /\ offset' = offset + Len(block')
              /\ Len(block') <= BlockSize
              /\ hash_obj' = hash_obj /\ pipe' = pipe
              /\ pc' = (IF block' = <<>> THEN "join" ELSE "update")
       /\ (pc = "update" /\ pc' # pc) => pc' = "write" /\ pipe' = pipe
       /\ (pc = "write" /\ pc' # pc) => pc' = "read" /\ hash_obj' = hash_obj
       /\ (pc' = pc /\ InRelay) =>
              /\ offset' = offset
              /\ block' = block
              /\ hash_obj' = hash_obj
              /\ Len(pipe') <= Len(pipe)
      ]_vars

\* The main path is about to read the third block of a file, after two blocks
\* went through the hash and then the pipe.
C17_Witness ==
    /\ pc = "read"
    /\ offset = 2 * BlockSize
    /\ Len(hash_obj) = 2 * BlockSize
    /\ Sent = hash_obj
    /\ Len(content[Head(iter)]) > offset

\* C18: in a run that reached Done, for every regular file the size in its
\* catalog line, the size in its member's header and the number of bytes fed
\* to the hash are equal.
C18_ThreeSizesAgree ==
    Finished =>
        \A i \in 1..Len(DataLines) :
            Classify(DataLines[i].name) = "file" =>
                \E j \in 1..Len(archive) :
                    /\ archive[j].name = RelPath(DataLines[i].name)
                    /\ archive[j].type = "REGTYPE"
                    /\ DataLines[i].size = Bytes(archive[j].size)
                    /\ Len(DataLines[i].checksum[2]) = archive[j].size

IsHeader(l) == l.header
Headers == SelectSeq(catalog, IsHeader)

\* The directory a header line names.
HeaderDir(l) == IF l.dir = <<>> THEN Root ELSE l.dir[Len(l.dir)]

\* C19: the header lines are those of the dequeued directories, one each, in
\* the order of the dequeues, and each is written by the dequeue itself; the
\* header of a directory precedes the data line of every entry of that
\* directory, and follows the data line that cataloged the directory (the
\* source directory has no such line).
C19_OneHeaderAtDequeue ==
    [][/\ Len(Headers') = Len(visited')
       /\ \A i \in 1..Len(visited') : Headers'[i] = HeaderLine(visited'[i])
       /\ visited' # visited =>
              catalog' = Append(catalog, HeaderLine(visited'[Len(visited')]))
       /\ \A k \in 1..Len(catalog') :
              IsData(catalog'[k]) =>
                  \E h \in 1..(k - 1) :
                      /\ IsHeader(catalog'[h])
                      /\ HeaderDir(catalog'[h]) = parent[catalog'[k].name]
       /\ \A h \in 1..Len(catalog') :
              (IsHeader(catalog'[h]) /\ HeaderDir(catalog'[h]) # Root) =>
                  \E k \in 1..(h - 1) :
                      /\ IsData(catalog'[k])
                      /\ catalog'[k].name = HeaderDir(catalog'[h])
      ]_vars

\* The catalog of a finished run has the header of the source directory, then
\* the line of a directory below it, later that directory's header, then the
\* line of an entry of that directory.
C19_Witness ==
    /\ pc = "exit"
    /\ \E a, b, c, d \in 1..Len(catalog) :
           /\ a < b /\ b < c /\ c < d
           /\ IsHeader(catalog[a]) /\ HeaderDir(catalog[a]) = Root
           /\ IsData(catalog[b]) /\ catalog[b].perm = "d"
           /\ IsHeader(catalog[c]) /\ HeaderDir(catalog[c]) = catalog[b].name
           /\ IsData(catalog[d]) /\ parent[catalog[d].name] = catalog[b].name

\* The main path is in the relay of a file and has not returned from the join.
BeforeJoinReturn == pc \in {"read", "update", "write", "join"}

\* C20: every relay gets past its join, whatever the thread does and however
\* the bytes read compare to the size the thread took from stat, and the
\* write end of the pipe is open until then.
C20_JoinAlwaysReturns ==
    /\ BeforeJoinReturn ~> (pc = "close_out")
    /\ [](BeforeJoinReturn => inOpen)

====
